---- MODULE Spec2Model ----
(***************************************************************************)
(* Model of backend/server.js: the document store (documents, storage.json, *)
(* saveDocuments), the chunker, the embedding gateway, the similarity       *)
(* ranker and the two request handlers POST /upload and POST /ask.          *)
(*                                                                          *)
(* Node runs every handler to completion between two awaits, so one action  *)
(* of the model is one synchronous stretch of a handler: from the arrival   *)
(* of the request, or from the resolution of the promise it awaits, to its  *)
(* next await or to its response.                                           *)
(***************************************************************************)
EXTENDS Integers, Sequences, FiniteSets, TLC

(***************************************************************************)
(* Bounds of the model.                                                     *)
(***************************************************************************)
\* requests that arrive in one run of the model, and how many of them are
\* uploads and how many are asks
MaxReqs == 3
MaxUploads == 2
MaxAsks == 2
\* largest value of Date.now(); the clock starts at 1, the stored document
\* of a previous run was created at 0
MaxClock == 2
\* restarts of the process
MaxBoots == 1
\* history entries of the document found in storage.json at startup
MaxInitHist == 8
\* chunkText called on its own: the longest text, the largest chunkSize and
\* overlap
MaxTextLen == 6
MaxChunkSize == 3
\* the ranking on its own: the most chunks a document has
MaxRankChunks == 5
\* cosineSimilarity on its own: the longest vector
MaxVecLen == 3

(***************************************************************************)
(* Program constants.                                                       *)
(***************************************************************************)
\* chunkText(text, chunkSize = 800, overlap = 200)
CHUNK_SIZE == 800
OVERLAP == 200
\* const TOP_K = 4
TOP_K == 4
\* (doc.history || []).slice(-6)
RECENT_HISTORY == 6

(***************************************************************************)
(* JavaScript values.                                                       *)
(***************************************************************************)
\* the value of a property the request body does not have
Undefined == "<undefined>"

Min(a, b) == IF a < b THEN a ELSE b
Max(a, b) == IF a > b THEN a ELSE b

\* The code never looks at a character of an uploaded text, only at its length
\* and its slices.  A character is identified with its offset in the uploaded
\* text, and a string of that text is the range of offsets from..to-1 it spans.
Text(len) == [from |-> 0, to |-> len]
TextLen(t) == t.to - t.from

\* String.prototype.slice(i, j): a negative index counts from the end, and
\* the result is empty when the end is not after the start
Slice(t, i, j) ==
    LET n == TextLen(t)
        a == IF i < 0 THEN Max(n + i, 0) ELSE Min(i, n)
        b == IF j < 0 THEN Max(n + j, 0) ELSE Min(j, n)
    IN  [from |-> t.from + a, to |-> t.from + Max(a, b)]

\* Array.prototype.slice(-n): the last n elements, all of them if fewer
SliceLast(s, n) == SubSeq(s, Max(Len(s) - n, 0) + 1, Len(s))


(***************************************************************************)
(* Chunking: the loop of chunkText, one iteration per unfolding.            *)
(***************************************************************************)
\* text.slice(i, text.length)
window_ToEnd(text, i, chunkSize) == Slice(text, i, TextLen(text))

\* line 83: text.slice(i, i + chunkSize)
window(text, i, chunkSize) == Slice(text, i, i + chunkSize)

\* i += chunkSize
nextStart_NoOverlap(i, chunkSize, overlap) == i + chunkSize

\* line 84: i += chunkSize - overlap
nextStart(i, chunkSize, overlap) == i + (chunkSize - overlap)

RECURSIVE chunkLoop(_, _, _, _, _)
chunkLoop(text, chunkSize, overlap, i, chunks) ==
    IF i < TextLen(text)
    THEN chunkLoop(text, chunkSize, overlap, nextStart(i, chunkSize, overlap),
                   Append(chunks, window(text, i, chunkSize)))
    ELSE chunks

chunkText(text, chunkSize, overlap) == chunkLoop(text, chunkSize, overlap, 0, <<>>)

(***************************************************************************)
(* Embedding gateway: embedText normalises the response of embedContent.    *)
(* A response is a record of its shape and the vector it carries.           *)
(***************************************************************************)
EmbedVecs == { <<1, 0>>, <<0, 1>> }

EmbedShapes == { "embedding.values", "data[0].embedding", "embeddings[0].values", "other" }

EmbedResponses == [shape : EmbedShapes, values : EmbedVecs]

\* what embedContent does: it rejects, or resolves with a response
EmbedOutcomes == { [ok |-> FALSE, shape |-> "none", values |-> <<>>] }
                 \cup { [ok |-> TRUE, shape |-> e.shape, values |-> e.values] : e \in EmbedResponses }

\* embedText: the vector, or a throw
embedTextThrows(out) == ~out.ok \/ out.shape = "other"
embedTextValue(out) == out.values

(***************************************************************************)
(* Similarity ranker.  A score is dot / (na * nb) with na, nb the square    *)
(* roots of na2, nb2; it is kept as the exact triple and compared by        *)
(* cross-multiplying squares, so no rounding is modelled.                   *)
(***************************************************************************)
RECURSIVE SumProd(_, _, _)
SumProd(a, b, i) == IF i > Len(a) THEN 0 ELSE a[i] * b[i] + SumProd(a, b, i + 1)

Sign(x) == IF x > 0 THEN 1 ELSE IF x < 0 THEN -1 ELSE 0

\* cosineSimilarity without line 106
cosineSimilarity_NoGuard(a, b) ==
    [num |-> SumProd(a, b, 1), den2 |-> SumProd(a, a, 1) * SumProd(b, b, 1)]

\* cosineSimilarity(a, b) as [num, den2]: the value num / sqrt(den2), and
\* exactly 0 (num = 0, den2 = 1) when a magnitude is 0
cosineSimilarity(a, b) ==
    LET dot == SumProd(a, b, 1)
        na2 == SumProd(a, a, 1)
        nb2 == SumProd(b, b, 1)
    IN  IF na2 = 0 \/ nb2 = 0 THEN [num |-> 0, den2 |-> 1]
        ELSE [num |-> dot, den2 |-> na2 * nb2]

\* s.score < t.score
ScoreLess(s, t) ==
    LET l == Sign(s.num) * s.num * s.num * t.den2
        r == Sign(t.num) * t.num * t.num * s.den2
    IN  l < r

\* Array.prototype.sort((a, b) => b.score - a.score): stable, descending.
\* Insert x after every element whose score is not lower than that of x.
RECURSIVE InsertByScore(_, _)
InsertByScore(sorted, x) ==
    IF sorted = <<>> THEN <<x>>
    ELSE IF ScoreLess(Head(sorted).score, x.score)
         THEN <<x>> \o sorted
         ELSE <<Head(sorted)>> \o InsertByScore(Tail(sorted), x)

RECURSIVE SortByScore(_, _)
SortByScore(scored, i) ==
    IF i = 0 THEN <<>>
    ELSE InsertByScore(SortByScore(scored, i - 1), scored[i])

\* scored = chunks.map(...); scored.sort(...)
rankChunks(qVec, chunks) ==
    LET scored == [i \in 1..Len(chunks) |->
                     [text |-> chunks[i].text,
                      score |-> cosineSimilarity(qVec, chunks[i].embedding)]]
    IN  SortByScore(scored, Len(scored))

\* scored.slice(-TOP_K).reverse().map(s => s.text)
topChunks_Lowest(scored) ==
    [i \in 1..Min(TOP_K, Len(scored)) |-> scored[Len(scored) - i + 1].text]

\* scored.slice(0, TOP_K).map(s => s.text)
topChunks(scored) == [i \in 1..Min(TOP_K, Len(scored)) |-> scored[i].text]

(***************************************************************************)
(* Generation capability: generateContent rejects or resolves with a        *)
(* response of some shape; rawAnswer normalises it.                         *)
(***************************************************************************)
GenTexts == { "A" }

GenShapes == { "accessor",         \* genResult.response.text is a function
               "textNotCallable",  \* genResult.response.text is set, not callable
               "string",           \* genResult is a string
               "nested",           \* genResult.output[0].content[0].text
               "nestedNumber",     \* genResult.output[0].content[0].text is 42
               "other",            \* an object of no known shape
               "absent" }          \* genResult is undefined

GenOutcomes == { [ok |-> FALSE, shape |-> "none", text |-> ""] }
               \cup { [ok |-> TRUE, shape |-> sh, text |-> t] : sh \in GenShapes, t \in GenTexts }

\* the number 42 as a value of a property
Number42 == "<number 42>"

\* typeof v === "string"
IsString(v) == v \notin { Undefined, Number42 }

\* the immediately-invoked function that computes rawAnswer
rawAnswer(genResult) ==
    CASE genResult.shape = "accessor"        -> genResult.text
      [] genResult.shape = "textNotCallable" -> "[object Object]"    \* catch: String(genResult)
      [] genResult.shape = "string"          -> genResult.text
      [] genResult.shape = "nested"          -> genResult.text
      [] genResult.shape = "nestedNumber"    -> Number42             \* returned as it is
      [] genResult.shape = "other"           -> "{\"candidates\":[]}" \* JSON.stringify(genResult).slice(0, 2000)
      [] genResult.shape = "absent"          -> "undefined"          \* catch: String(undefined)

(***************************************************************************)
(* Request bodies.  A question is a JSON value: its type and, for a string, *)
(* its characters.                                                          *)
(***************************************************************************)
Questions == { [type |-> "undefined", chars |-> <<>>],
               [type |-> "string", chars |-> <<>>],
               [type |-> "string", chars |-> <<" ">>],
               [type |-> "string", chars |-> <<" ", "q">>],
               [type |-> "number", chars |-> <<"7">>] }

RECURSIVE TrimStart(_)
TrimStart(cs) == IF cs # <<>> /\ Head(cs) = " " THEN TrimStart(Tail(cs)) ELSE cs

RECURSIVE TrimEnd(_)
TrimEnd(cs) == IF cs # <<>> /\ cs[Len(cs)] = " " THEN TrimEnd(SubSeq(cs, 1, Len(cs) - 1)) ELSE cs

\* String.prototype.trim
Trim(cs) == TrimEnd(TrimStart(cs))

\* !question
QuestionFalsy(q) == q.type = "undefined" \/ (q.type = "string" /\ q.chars = <<>>)

\* question.trim is not a function: the call throws a TypeError
TrimThrows(q) == q.type # "string"

\* !question
QuestionBlank_NoTrim(q) == QuestionFalsy(q)

\* !question || !question.trim(), when the call does not throw
QuestionBlank(q) == QuestionFalsy(q) \/ Trim(q.chars) = <<>>

\* properties every object inherits from Object.prototype
ProtoKeys == { "constructor", "__proto__", "toString", "valueOf", "hasOwnProperty" }

Filenames == { "notes.txt", "paper.pdf", "tool.exe" }

\* path.extname(req.file.originalname).toLowerCase()
ExtName(name) ==
    CASE name = "notes.txt" -> ".txt"
      [] name = "paper.pdf" -> ".pdf"
      [] name = "tool.exe"  -> ".exe"

\* the lengths of the texts an uploaded file holds: no chunk, two chunks
TextLens == { 0, CHUNK_SIZE - OVERLAP + 1 }
Texts == { Text(n) : n \in TextLens }

(***************************************************************************)
(* State.                                                                   *)
(***************************************************************************)
VARIABLES
    clock,      \* Date.now()
    documents,  \* let documents: docId -> reference of a document object
    heap,       \* the document objects, by reference
    file,       \* storage.json
    reqs,       \* the requests that arrived, in order of arrival
    nreq,       \* how many arrived
    nkind,      \* how many uploads and how many asks arrived
    boots,      \* how often the process was restarted
    calc,       \* a call of one of the helper functions on its own: its
                \* arguments, its locals and its result
    docsType    \* what kind of value documents is bound to: "object",
                \* "array" or "primitive"; documents holds its own properties

vars == <<clock, documents, heap, file, reqs, nreq, nkind, boots, calc, docsType>>

\* no helper function is being called on its own
NoCalc == [op |-> "none"]

NoStore == [id \in {} |-> 0]

\* storage.json: absent, text that JSON.parse rejects, the JSON of a store,
\* or JSON of another value: a falsy one (null, 0, false, ""), a truthy
\* primitive (5, true, "x"), the empty array
AbsentFile == [kind |-> "absent", value |-> NoStore]
GarbageFile == [kind |-> "garbage", value |-> NoStore]
JsonFile(store) == [kind |-> "json", value |-> store]
FalsyFile == [kind |-> "falsy", value |-> NoStore]
PrimitiveFile == [kind |-> "primitive", value |-> NoStore]
ArrayFile == [kind |-> "array", value |-> NoStore]

\* JSON.stringify(documents, null, 2): the documents by value
Stringify(docs, hp) == [id \in DOMAIN docs |-> hp[docs[id]]]

\* References of document objects: the k-th object made for a document id.
Ref(id, k) == id \o "#" \o ToString(k)

\* the reference of the object JSON.parse creates for the document id
FileRef(id) == Ref(id, 0)

\* the reference of a new object for the document id
NewRef(id, hp) == Ref(id, CHOOSE k \in 0..(MaxReqs + 1) :
                         /\ Ref(id, k) \notin DOMAIN hp
                         /\ \A j \in 0..(k - 1) : Ref(id, j) \in DOMAIN hp)

\* lines 27-37: the store after loading storage.json
LoadStore(f) == IF f.kind = "json" THEN f.value ELSE NoStore
LoadDocuments(f) == [id \in DOMAIN LoadStore(f) |-> FileRef(id)]
LoadHeap(f) ==
    [r \in { FileRef(id) : id \in DOMAIN LoadStore(f) } |->
        LoadStore(f)[CHOOSE id \in DOMAIN LoadStore(f) : FileRef(id) = r]]

\* lines 31, 35: documents = JSON.parse(raw) || {}, or {} when nothing parses
LoadType(f) ==
    CASE f.kind = "primitive" -> "primitive"
      [] f.kind = "array"     -> "array"
      [] OTHER                -> "object"

\* what saveDocuments' writeFileSync does: it writes, or throws leaving the
\* file as it was, or throws leaving it truncated
WriteOutcomes == { "ok", "failKept", "failTruncated" }
\* JSON.stringify of an array writes its elements, none of its other
\* properties: a document id, Date.now().toString(), is no array index
saveDocuments(docs, hp, w) ==
    CASE w = "ok"            -> IF docsType = "array" THEN ArrayFile
                                ELSE JsonFile(Stringify(docs, hp))
      [] w = "failKept"      -> file
      [] w = "failTruncated" -> GarbageFile
saveThrows(w) == w # "ok"

\* documents[docId]: an own property, an inherited one, or undefined
Lookup(docs, docId) ==
    IF docId \in DOMAIN docs THEN docs[docId]
    ELSE IF docId \in ProtoKeys THEN "<inherited>"
    ELSE Undefined

\* the history section of the prompt: the entries as "Q: ...\nA: ..." pairs,
\* or the text "None" when that rendering is the empty string
renderHistory(entries) ==
    [none |-> entries = <<>>,
     pairs |-> [i \in 1..Len(entries) |-> [q |-> entries[i].q, a |-> entries[i].a]]]

\* (doc.history || []).slice(0, 6)
recentHistory_Oldest(history) ==
    renderHistory(SubSeq(history, 1, Min(Len(history), RECENT_HISTORY)))

\* (doc.history || []).slice(-6).map(...).join("\n\n") || "None"
recentHistory(history) == renderHistory(SliceLast(history, RECENT_HISTORY))

\* the prompt: its excerpts, its history section and the question
NoPrompt == [excerpts |-> <<>>, history |-> renderHistory(<<>>), question |-> <<>>]

\* A request: the handler's locals and the point it is suspended at.  pc is
\* "extract", "embed" or "generate" while a promise is awaited and "done" in
\* the state its response is sent in; the step after that forgets the request.
\* failedAt names the statement that threw, embedCalls and genCalls count the
\* calls of embedContent and generateContent the request made.
NoReq == [kind |-> "none", pc |-> "idle", status |-> 0, error |-> "", failedAt |-> "",
          name |-> "", rawChunks |-> <<>>, embedded |-> <<>>,
          question |-> [type |-> "undefined", chars |-> <<>>], docId |-> Undefined,
          doc |-> Undefined, prompt |-> NoPrompt, answer |-> "",
          embedCalls |-> 0, genCalls |-> 0]

\* the throw is not caught: no response is sent
Fail_Unhandled(req, status, error, at) == [req EXCEPT !.pc = "crashed", !.failedAt = at]

\* res.status(status).json({ success: false, error })
Fail(req, status, error, at) ==
    [req EXCEPT !.pc = "done", !.status = status, !.error = error, !.failedAt = at]

\* res.json({ success: true, ... })
Succeed(req) == [req EXCEPT !.pc = "done", !.status = 200]

\* the requests still in flight
Pending == [r \in 1..MaxReqs |-> IF reqs[r].pc = "done" THEN NoReq ELSE reqs[r]]

\* the document a previous run left in storage.json, with h history entries
InitChunks == << [text |-> Text(2), embedding |-> <<1, 0>>] >>
InitEntry(i) == [q |-> <<" ", "q">>, a |-> ToString(i), createdAt |-> 0]
InitDoc(h) == [filename |-> "notes.txt", chunks |-> InitChunks,
               history |-> [i \in 1..h |-> InitEntry(i)], createdAt |-> 0]
StoredFile(h) == JsonFile([id \in {"0"} |-> InitDoc(h)])
InitFiles == { AbsentFile, StoredFile(0) }

\* lines 27-37: the process starts
Init ==
    /\ clock = 1
    /\ file \in InitFiles
    /\ documents = LoadDocuments(file)
    /\ heap = LoadHeap(file)
    /\ docsType = LoadType(file)
    /\ reqs = [r \in 1..MaxReqs |-> NoReq]
    /\ nreq = 0
    /\ nkind = [upload |-> 0, ask |-> 0]
    /\ boots = 0
    /\ calc = NoCalc

(***************************************************************************)
(* POST /upload                                                             *)
(***************************************************************************)
\* lines 141-158: insert the document, save, answer
UploadInsert(r, req, embeddedChunks, w) ==
    LET docId == ToString(clock)
        ref == NewRef(docId, heap)
        obj == [filename |-> req.name, chunks |-> embeddedChunks,
                history |-> <<>>, createdAt |-> clock]
        docs2 == [id \in DOMAIN documents \cup {docId} |->
                    IF id = docId THEN ref ELSE documents[id]]
        heap2 == [x \in DOMAIN heap \cup {ref} |-> IF x = ref THEN obj ELSE heap[x]]
    IN  IF docsType = "primitive"
        \* line 142 throws a TypeError: a primitive takes no property (the
        \* file is an ES module, so its code is strict)
        THEN /\ reqs' = [Pending EXCEPT ![r] =
                           Fail([req EXCEPT !.docId = docId], 500, "Upload failed", "insert")]
             /\ UNCHANGED <<clock, documents, heap, file>>
        ELSE /\ documents' = docs2
             /\ heap' = heap2
             /\ UNCHANGED clock
             /\ file' = saveDocuments(docs2, heap2, w)
             /\ reqs' = [Pending EXCEPT ![r] =
                           IF saveThrows(w)
                           THEN Fail([req EXCEPT !.docId = docId, !.doc = ref],
                                     500, "Upload failed", "save")
                           ELSE Succeed([req EXCEPT !.docId = docId, !.doc = ref,
                                                    !.embedded = embeddedChunks])]

\* lines 132-139: chunk the text and start embedding the first chunk
UploadChunk(r, req, text, w) ==
    LET rawChunks == chunkText(text, CHUNK_SIZE, OVERLAP)
    IN  IF rawChunks = <<>>
        THEN UploadInsert(r, req, <<>>, w)
        ELSE /\ reqs' = [Pending EXCEPT ![r] =
                           [req EXCEPT !.pc = "embed", !.rawChunks = rawChunks,
                                       !.embedded = <<>>, !.embedCalls = 1]]
             /\ UNCHANGED <<clock, documents, heap, file>>

\* what reading or extracting the uploaded file gives: its text, or a throw
ExtractOutcomes == { [ok |-> FALSE, text |-> Text(0)] }
                   \cup { [ok |-> TRUE, text |-> t] : t \in Texts }

\* lines 113-132: the request arrives
UploadArrives ==
    /\ nreq < MaxReqs
    /\ nkind.upload < MaxUploads
    /\ nreq' = nreq + 1
    /\ nkind' = [nkind EXCEPT !.upload = @ + 1]
    /\ UNCHANGED <<boots, calc, docsType>>
    /\ \E hasFile \in BOOLEAN, name \in Filenames, x \in ExtractOutcomes, w \in WriteOutcomes :
         LET r == nreq + 1
             req == [NoReq EXCEPT !.kind = "upload", !.name = IF hasFile THEN name ELSE ""]
             ext == ExtName(name)
         IN  IF ~hasFile
             THEN /\ reqs' = [Pending EXCEPT ![r] = Fail(req, 400, "No file uploaded", "")]
                  /\ UNCHANGED <<clock, documents, heap, file>>
             ELSE IF ext \in {".pdf", ".docx", ".doc"}
             THEN /\ reqs' = [Pending EXCEPT ![r] = [req EXCEPT !.pc = "extract"]]
                  /\ UNCHANGED <<clock, documents, heap, file>>
             ELSE IF ext = ".txt"
             THEN IF ~x.ok
                  THEN /\ reqs' = [Pending EXCEPT ![r] =
                                     Fail(req, 500, "Upload failed", "extract")]
                       /\ UNCHANGED <<clock, documents, heap, file>>
                  ELSE UploadChunk(r, req, x.text, w)
             ELSE /\ reqs' = [Pending EXCEPT ![r] =
                                Fail(req, 400, "Unsupported file type", "")]
                  /\ UNCHANGED <<clock, documents, heap, file>>

\* lines 121-132: extractPdf or extractDocx resolves or rejects
UploadExtracted ==
    /\ UNCHANGED <<nreq, nkind, boots, calc, docsType>>
    /\ \E r \in 1..nreq, x \in ExtractOutcomes, w \in WriteOutcomes :
         /\ reqs[r].kind = "upload"
         /\ reqs[r].pc = "extract"
         /\ IF ~x.ok
            THEN /\ reqs' = [Pending EXCEPT ![r] =
                               Fail(reqs[r], 500, "Upload failed", "extract")]
                 /\ UNCHANGED <<clock, documents, heap, file>>
            ELSE UploadChunk(r, reqs[r], x.text, w)

\* embeddedChunks.unshift({ text: c, embedding: vec })
pushChunk_Front(embeddedChunks, c, vec) == <<[text |-> c, embedding |-> vec]>> \o embeddedChunks

\* line 138: embeddedChunks.push({ text: c, embedding: vec })
pushChunk(embeddedChunks, c, vec) == Append(embeddedChunks, [text |-> c, embedding |-> vec])

\* the loop leaves after its first chunk
moreChunks_StopsEarly(embeddedChunks, rawChunks) == FALSE

\* line 136, for (const c of rawChunks): another chunk is left to embed
moreChunks(embeddedChunks, rawChunks) == Len(embeddedChunks) < Len(rawChunks)

\* lines 136-158: embedText of the current chunk resolves or throws
UploadEmbedded(E) ==
    /\ UNCHANGED <<nreq, nkind, boots, calc, docsType>>
    /\ \E r \in 1..nreq, e \in E, w \in WriteOutcomes :
         /\ reqs[r].kind = "upload"
         /\ reqs[r].pc = "embed"
         /\ LET req == reqs[r]
                c == req.rawChunks[Len(req.embedded) + 1]
                embeddedChunks == pushChunk(req.embedded, c, embedTextValue(e))
            IN  IF embedTextThrows(e)
                THEN /\ reqs' = [Pending EXCEPT ![r] =
                                   Fail(req, 500, "Upload failed", "embed")]
                     /\ UNCHANGED <<clock, documents, heap, file>>
                ELSE IF moreChunks(embeddedChunks, req.rawChunks)
                THEN /\ reqs' = [Pending EXCEPT ![r] =
                                   [req EXCEPT !.embedded = embeddedChunks,
                                               !.embedCalls = @ + 1]]
                     /\ UNCHANGED <<clock, documents, heap, file>>
                ELSE UploadInsert(r, req, embeddedChunks, w)

(***************************************************************************)
(* POST /ask                                                                *)
(***************************************************************************)
\* doc.history = [entry]
pushHistory_Overwrites(history, entry) == <<entry>>

\* doc.history.push(entry)
pushHistory(history, entry) == Append(history, entry)

\* for (const d of Object.values(documents)) d.history.push(entry)
appendEntry_EveryDoc(hp, doc, entry) ==
    [x \in DOMAIN hp |-> [hp[x] EXCEPT !.history = pushHistory(@, entry)]]

\* line 234: the effect of doc.history.push(entry) on the document objects
appendEntry(hp, doc, entry) == [hp EXCEPT ![doc].history = pushHistory(@, entry)]

\* the document ids a client sends: none, a property of Object.prototype, an
\* id no document ever had, the id of a stored document
AskDocIds == { Undefined, "constructor", "404" } \cup DOMAIN documents

\* lines 175-185: the request arrives
AskArrives(Q, D) ==
    /\ nreq < MaxReqs
    /\ nkind.ask < MaxAsks
    /\ nreq' = nreq + 1
    /\ nkind' = [nkind EXCEPT !.ask = @ + 1]
    /\ UNCHANGED <<clock, documents, heap, file, boots, calc, docsType>>
    /\ \E question \in Q, docId \in D :
         LET r == nreq + 1
             req == [NoReq EXCEPT !.kind = "ask", !.question = question, !.docId = docId]
             doc == Lookup(documents, docId)
             rejected ==
                IF QuestionFalsy(question)
                THEN Fail(req, 400, "No question provided", "")
                ELSE IF TrimThrows(question)
                THEN Fail(req, 500, "Q&A failed", "trim")
                ELSE IF QuestionBlank(question)
                THEN Fail(req, 400, "No question provided", "")
                ELSE IF docId = Undefined \/ doc = Undefined
                THEN Fail(req, 400, "Invalid or missing docId", "")
                ELSE NoReq
         IN  IF rejected # NoReq
             THEN reqs' = [Pending EXCEPT ![r] = rejected]
             ELSE /\ reqs' = [Pending EXCEPT ![r] =
                                [req EXCEPT !.pc = "embed", !.doc = doc, !.embedCalls = 1]]

\* lines 185-218: embedText(question) resolves or throws; rank, build the
\* prompt and call generateContent
AskEmbedded(E) ==
    /\ UNCHANGED <<clock, documents, heap, file, nreq, nkind, boots, calc, docsType>>
    /\ \E r \in 1..nreq, e \in E :
         /\ reqs[r].kind = "ask"
         /\ reqs[r].pc = "embed"
         /\ LET req == reqs[r]
            IN  reqs' = [Pending EXCEPT ![r] =
                   IF embedTextThrows(e)
                   THEN Fail(req, 500, "Q&A failed", "embed")
                   ELSE IF req.doc = "<inherited>"
                   THEN Fail(req, 500, "Q&A failed", "rank")   \* chunks is undefined: chunks.map throws
                   ELSE LET doc == heap[req.doc]
                            scored == rankChunks(embedTextValue(e), doc.chunks)
                        IN  [req EXCEPT !.pc = "generate", !.genCalls = 1,
                                        !.prompt = [excerpts |-> topChunks(scored),
                                                    history |-> recentHistory(doc.history),
                                                    question |-> req.question.chars]]]

\* lines 218-241: generateContent resolves or rejects; normalise the answer,
\* push the history entry, save, answer
AskGenerated(G, W) ==
    /\ UNCHANGED <<clock, documents, nreq, nkind, boots, calc, docsType>>
    /\ \E r \in 1..nreq, g \in G, w \in W :
         /\ reqs[r].kind = "ask"
         /\ reqs[r].pc = "generate"
         /\ LET req == reqs[r]
                entry == [q |-> req.question.chars, a |-> rawAnswer(g), createdAt |-> clock]
                heap2 == appendEntry(heap, req.doc, entry)
            IN  IF ~g.ok
                THEN /\ reqs' = [Pending EXCEPT ![r] = Fail(req, 500, "Q&A failed", "generate")]
                     /\ UNCHANGED <<heap, file>>
                ELSE /\ heap' = heap2
                     /\ file' = saveDocuments(documents, heap2, w)
                     /\ reqs' = [Pending EXCEPT ![r] =
                                   IF saveThrows(w)
                                   THEN Fail([req EXCEPT !.answer = rawAnswer(g)],
                                             500, "Q&A failed", "save")
                                   ELSE Succeed([req EXCEPT !.answer = rawAnswer(g)])]

(***************************************************************************)
(* Environment: time passes; the process crashes and is started again.      *)
(***************************************************************************)
Tick ==
    /\ clock < MaxClock
    /\ clock' = clock + 1
    /\ reqs' = Pending
    /\ UNCHANGED <<documents, heap, file, nreq, nkind, boots, calc, docsType>>

\* lines 27-37 run again; the requests in flight are gone
Restart ==
    /\ boots < MaxBoots
    /\ boots' = boots + 1
    /\ documents' = LoadDocuments(file)
    /\ heap' = LoadHeap(file)
    /\ reqs' = [r \in 1..MaxReqs |-> NoReq]
    /\ docsType' = LoadType(file)
    /\ UNCHANGED <<clock, file, nreq, nkind, calc>>

\* Spec interleaves uploads, asks and restarts.  Its asks carry no question
\* or a proper one and no document id or a stored one, and its capabilities
\* reject, answer with an unusable response, or answer with one embedding
\* vector and one of two answers.  SpecAsk below runs the asks alone, on
\* every input.
SomeQuestions == { q \in Questions : q.type = "undefined" \/ Trim(q.chars) # <<>> }
SomeDocIds == { Undefined } \cup DOMAIN documents
SomeEmbedOutcomes == { e \in EmbedOutcomes : e.ok => e.values = <<1, 0>> }
SomeGenOutcomes == { g \in GenOutcomes : g.ok => g.shape \in {"accessor", "absent"} }

Next ==
    \/ UploadArrives
    \/ UploadExtracted
    \/ UploadEmbedded(SomeEmbedOutcomes)
    \/ AskArrives(SomeQuestions, SomeDocIds)
    \/ AskEmbedded(SomeEmbedOutcomes)
    \/ AskGenerated(SomeGenOutcomes, WriteOutcomes)
    \/ Tick
    \/ Restart

Spec == Init /\ [][Next]_vars

(***************************************************************************)
(* The asks alone: every question, every document id, every response of    *)
(* the capabilities.                                                        *)
(***************************************************************************)
NextAsk ==
    \/ AskArrives(Questions, AskDocIds)
    \/ AskEmbedded(EmbedOutcomes)
    \/ AskGenerated(GenOutcomes, WriteOutcomes)
    \/ Tick

SpecAsk == Init /\ [][NextAsk]_vars

(***************************************************************************)
(* The uploads alone, on every response of the embedding capability.        *)
(***************************************************************************)
NextUpload ==
    \/ UploadArrives
    \/ UploadExtracted
    \/ UploadEmbedded(EmbedOutcomes)
    \/ Tick
    \/ Restart

SpecUpload == Init /\ [][NextUpload]_vars

(***************************************************************************)
(* The asks that are answered: a proper question, a stored document, and    *)
(* capabilities and a disk that do not fail.  They interleave at their      *)
(* awaits.  The document was left by a previous run, with a history of any  *)
(* length up to MaxInitHist.                                                *)
(***************************************************************************)
InitAnswered ==
    /\ clock = 1
    /\ file \in { StoredFile(h) : h \in 0..MaxInitHist }
    /\ documents = LoadDocuments(file)
    /\ heap = LoadHeap(file)
    /\ docsType = LoadType(file)
    /\ reqs = [r \in 1..MaxReqs |-> NoReq]
    /\ nreq = 0
    /\ nkind = [upload |-> 0, ask |-> 0]
    /\ boots = 0
    /\ calc = NoCalc

ProperQuestions == { q \in Questions : q.type = "string" /\ Trim(q.chars) # <<>> }
UsableEmbedOutcomes == { e \in EmbedOutcomes : e.ok /\ e.shape # "other" }
UsableGenOutcomes == { g \in GenOutcomes : g.ok }

NextAnswered ==
    \/ AskArrives(ProperQuestions, DOMAIN documents)
    \/ AskEmbedded(UsableEmbedOutcomes)
    \/ AskGenerated(UsableGenOutcomes, {"ok"})
    \/ Tick

SpecAnswered == InitAnswered /\ [][NextAnswered]_vars

(***************************************************************************)
(* The process started on any storage.json, then serving uploads and asks   *)
(* whose capabilities answer and whose disk writes, and started again.      *)
(***************************************************************************)
StartFiles == { AbsentFile, GarbageFile, FalsyFile, PrimitiveFile, ArrayFile, StoredFile(1) }

InitStart ==
    /\ clock = 1
    /\ file \in StartFiles
    /\ documents = LoadDocuments(file)
    /\ heap = LoadHeap(file)
    /\ docsType = LoadType(file)
    /\ reqs = [r \in 1..MaxReqs |-> NoReq]
    /\ nreq = 0
    /\ nkind = [upload |-> 0, ask |-> 0]
    /\ boots = 0
    /\ calc = NoCalc

NextStart ==
    \/ UploadArrives
    \/ UploadExtracted
    \/ UploadEmbedded(SomeEmbedOutcomes)
    \/ AskArrives(ProperQuestions, SomeDocIds)
    \/ AskEmbedded(SomeEmbedOutcomes)
    \/ AskGenerated(SomeGenOutcomes, {"ok"})
    \/ Restart

SpecStart == InitStart /\ [][NextStart]_vars

(***************************************************************************)
(* chunkText called on its own, on every text up to MaxTextLen characters   *)
(* and every chunkSize >= 1 and overlap >= 0 up to MaxChunkSize, the        *)
(* configurations with overlap >= chunkSize included.  One step is one      *)
(* iteration of the while loop, or the return.  A loop that does not end    *)
(* is followed for as many iterations as the longest text has characters,   *)
(* plus one: a call with overlap < chunkSize returns within that many.      *)
(***************************************************************************)
MaxChunks == MaxTextLen + 1

ChunkCalls ==
    { [op |-> "chunkText", pc |-> "loop", text |-> Text(n), chunkSize |-> size,
       overlap |-> overlap, i |-> 0, chunks |-> <<>>] :
         n \in 0..MaxTextLen, size \in 1..MaxChunkSize, overlap \in 0..MaxChunkSize }

InitChunk ==
    /\ clock = 1
    /\ file = AbsentFile
    /\ documents = LoadDocuments(file)
    /\ heap = LoadHeap(file)
    /\ docsType = LoadType(file)
    /\ reqs = [r \in 1..MaxReqs |-> NoReq]
    /\ nreq = 0
    /\ nkind = [upload |-> 0, ask |-> 0]
    /\ boots = 0
    /\ calc \in ChunkCalls

\* lines 82-84: the loop condition holds; push the window, move i
ChunkIterate ==
    /\ calc.op = "chunkText"
    /\ calc.pc = "loop"
    /\ calc.i < TextLen(calc.text)
    /\ Len(calc.chunks) < MaxChunks
    /\ calc' = [calc EXCEPT !.chunks = Append(@, window(calc.text, calc.i, calc.chunkSize)),
                            !.i = nextStart(@, calc.chunkSize, calc.overlap)]
    /\ UNCHANGED <<clock, documents, heap, file, reqs, nreq, nkind, boots, docsType>>

\* lines 82, 86: the loop condition fails; return chunks
ChunkReturn ==
    /\ calc.op = "chunkText"
    /\ calc.pc = "loop"
    /\ ~(calc.i < TextLen(calc.text))
    /\ calc' = [calc EXCEPT !.pc = "returned"]
    /\ UNCHANGED <<clock, documents, heap, file, reqs, nreq, nkind, boots, docsType>>

NextChunk ==
    \/ ChunkIterate
    \/ ChunkReturn

SpecChunk == InitChunk /\ [][NextChunk]_vars

(***************************************************************************)
(* The ranking of lines 188-196 on its own: a question vector against the   *)
(* chunks of a document, every chunk with a text of its own and any of the  *)
(* vectors of RankVecs, the zero vector and equal vectors included.         *)
(***************************************************************************)
RankVecs == { <<1, 0>>, <<0, 1>>, <<1, 1>>, <<0, 0>>, <<-1, 0>> }
QueryVecs == { <<1, 0>>, <<2, 1>>, <<0, 0>> }

RankCalls ==
    { [op |-> "rank", pc |-> "call", qVec |-> q,
       chunks |-> [i \in 1..n |-> [text |-> [from |-> i - 1, to |-> i], embedding |-> emb[i]]],
       scored |-> <<>>, excerpts |-> <<>>] :
         q \in QueryVecs, n \in 0..MaxRankChunks, emb \in [1..MaxRankChunks -> RankVecs] }

InitRank ==
    /\ clock = 1
    /\ file = AbsentFile
    /\ documents = LoadDocuments(file)
    /\ heap = LoadHeap(file)
    /\ docsType = LoadType(file)
    /\ reqs = [r \in 1..MaxReqs |-> NoReq]
    /\ nreq = 0
    /\ nkind = [upload |-> 0, ask |-> 0]
    /\ boots = 0
    /\ calc \in RankCalls

\* lines 188-196: score, sort, take the top chunks
RankCall ==
    /\ calc.op = "rank"
    /\ calc.pc = "call"
    /\ LET scored == rankChunks(calc.qVec, calc.chunks)
       IN  calc' = [calc EXCEPT !.pc = "returned", !.scored = scored,
                                !.excerpts = topChunks(scored)]
    /\ UNCHANGED <<clock, documents, heap, file, reqs, nreq, nkind, boots, docsType>>

NextRank == RankCall

SpecRank == InitRank /\ [][NextRank]_vars

(***************************************************************************)
(* cosineSimilarity called on its own, on every two vectors of one length   *)
(* up to MaxVecLen with entries -1, 0 and 1.                                *)
(***************************************************************************)
VecEntries == { -1, 0, 1 }
Vecs(n) == [1..n -> VecEntries]

CosineCalls ==
    { [op |-> "cosineSimilarity", pc |-> "call", a |-> c[1], b |-> c[2],
       result |-> [num |-> 0, den2 |-> 1]] :
         c \in UNION { Vecs(n) \X Vecs(n) : n \in 0..MaxVecLen } }

InitCosine ==
    /\ clock = 1
    /\ file = AbsentFile
    /\ documents = LoadDocuments(file)
    /\ heap = LoadHeap(file)
    /\ docsType = LoadType(file)
    /\ reqs = [r \in 1..MaxReqs |-> NoReq]
    /\ nreq = 0
    /\ nkind = [upload |-> 0, ask |-> 0]
    /\ boots = 0
    /\ calc \in CosineCalls

\* lines 102-108
CosineCall ==
    /\ calc.op = "cosineSimilarity"
    /\ calc.pc = "call"
    /\ calc' = [calc EXCEPT !.pc = "returned", !.result = cosineSimilarity(calc.a, calc.b)]
    /\ UNCHANGED <<clock, documents, heap, file, reqs, nreq, nkind, boots, docsType>>

NextCosine == CosineCall

SpecCosine == InitCosine /\ [][NextCosine]_vars

(***************************************************************************)
(* The requests of a process that stays up, on every question and document  *)
(* id, all within one millisecond of the clock (no response depends on the  *)
(* time).  The handlers are defined as blocking until the external call     *)
(* resolves or fails: every promise a handler awaits settles, so the        *)
(* continuation of a suspended handler is eventually run.                   *)
(***************************************************************************)
NextServe ==
    \/ UploadArrives
    \/ UploadExtracted
    \/ UploadEmbedded(SomeEmbedOutcomes)
    \/ AskArrives(Questions, AskDocIds)
    \/ AskEmbedded(SomeEmbedOutcomes)
    \/ AskGenerated(SomeGenOutcomes, WriteOutcomes)

SpecServe ==
    /\ Init
    /\ [][NextServe]_vars
    /\ WF_vars(UploadExtracted)
    /\ WF_vars(UploadEmbedded(SomeEmbedOutcomes))
    /\ WF_vars(AskEmbedded(SomeEmbedOutcomes))
    /\ WF_vars(AskGenerated(SomeGenOutcomes, WriteOutcomes))

(***************************************************************************)
(* Properties.                                                              *)
(***************************************************************************)
\* the in-memory store by value, and what a restart would load from the file
Memory == Stringify(documents, heap)
Durable == LoadStore(file)

\* request r gets its response in this step
Ends(r) == reqs[r].pc # "done" /\ reqs'[r].pc = "done"

\* ask r arrives in this step
AskArrived(r) == reqs[r].kind = "none" /\ reqs'[r].kind = "ask"

IsPrefix(s, t) == Len(s) <= Len(t) /\ SubSeq(t, 1, Len(s)) = s

Last(s) == s[Len(s)]

\* C1: Upload atomicity.  When embedText throws on a chunk of an upload, the
\* upload answers 500 and documents, the document objects and storage.json
\* stay as they were.  When a document appears under an id, an upload ends in
\* that step which had embedded every chunk of its text but the one whose
\* embedding just resolved, and the document holds exactly the chunks of
\* that text, in order.
C1_UploadAtomic ==
    [][ /\ \A r \in 1..MaxReqs :
             ( /\ reqs[r].kind = "upload"
               /\ reqs[r].pc = "embed"
               /\ reqs'[r].pc = "done"
               /\ reqs'[r].failedAt = "embed" )
             => ( /\ reqs'[r].status = 500
                  /\ UNCHANGED <<documents, heap, file>> )
        /\ (boots' = boots /\ documents' # documents)
             => \E r \in 1..MaxReqs :
                  /\ reqs'[r].kind = "upload"
                  /\ Ends(r)
                  /\ reqs'[r].docId \in DOMAIN documents'
                  /\ \A id \in DOMAIN documents' \ {reqs'[r].docId} :
                        id \in DOMAIN documents /\ documents'[id] = documents[id]
                  /\ reqs[r].pc = "embed"
                        => Len(reqs[r].embedded) + 1 = Len(reqs[r].rawChunks)
                  /\ LET chunks == heap'[documents'[reqs'[r].docId]].chunks
                     IN  /\ Len(chunks) = Len(reqs[r].rawChunks)
                         /\ \A i \in 1..Len(chunks) : chunks[i].text = reqs[r].rawChunks[i]
      ]_vars

\* C1 witness: an upload of a text of two chunks failed on its second chunk
C1_Witness ==
    \E r \in 1..MaxReqs :
        /\ reqs[r].kind = "upload"
        /\ reqs[r].pc = "done"
        /\ reqs[r].failedAt = "embed"
        /\ Len(reqs[r].rawChunks) = 2
        /\ Len(reqs[r].embedded) = 1

\* the entries of a history that this run appended: the clock starts at 1,
\* the entries storage.json held at startup are stamped 0
Appended(history) == { i \in 1..Len(history) : history[i].createdAt >= 1 }

\* C2: Concurrent asks lose no history entry.  Once every ask that arrived
\* against a document has been answered with success, however the asks
\* interleaved at their awaits, the document's history in memory holds one
\* appended entry per ask, and storage.json holds the same history.
C2_NoLostAppend ==
    (\A r \in 1..MaxReqs : reqs[r].pc \in {"idle", "done"})
    => \A id \in DOMAIN documents :
          LET history == heap[documents[id]].history
          IN  /\ Cardinality(Appended(history)) = nkind.ask
              /\ nkind.ask >= 1
                   => /\ file.kind = "json"
                      /\ id \in DOMAIN file.value
                      /\ file.value[id].history = history

\* C2 witness: two asks were answered, and the one answered last had built
\* its prompt before the other appended its entry
C2_Witness ==
    /\ nkind.ask = 2
    /\ \E r \in 1..MaxReqs :
          /\ reqs[r].pc = "done"
          /\ reqs[r].status = 200
          /\ reqs[r].prompt.history.none
          /\ Len(heap[reqs[r].doc].history) = 2

\* C3: Whenever an upload or an ask answers with success, storage.json holds
\* the whole in-memory store, a restart would load that store back, and the
\* stored copy includes the mutation of the request: the uploaded document,
\* or the history entry of the ask as the last entry of the document asked.
C3_SavedBeforeSuccess ==
    \A r \in 1..MaxReqs :
        (reqs[r].pc = "done" /\ reqs[r].status = 200)
        => /\ file = JsonFile(Memory)
           /\ Durable = Memory
           /\ reqs[r].docId \in DOMAIN Durable
           /\ reqs[r].kind = "upload"
                => /\ Durable[reqs[r].docId].filename = reqs[r].name
                   /\ Durable[reqs[r].docId].chunks = reqs[r].embedded
           /\ reqs[r].kind = "ask"
                => /\ Durable[reqs[r].docId].history # <<>>
                   /\ Last(Durable[reqs[r].docId].history).q = reqs[r].question.chars
                   /\ Last(Durable[reqs[r].docId].history).a = reqs[r].answer

\* C4: When writing storage.json fails in an upload or an ask, the request
\* answers with a failure and the in-memory store equals what storage.json
\* holds.
C4_NoDivergence ==
    \A r \in 1..MaxReqs :
        (reqs[r].pc = "done" /\ reqs[r].failedAt = "save")
        => /\ reqs[r].status = 500
           /\ Memory = Durable

\* C5: An upload that completes with the id of a stored document fails, and
\* leaves that document as it was.
C5_DuplicateId ==
    [][ \A r \in 1..MaxReqs :
          ( /\ reqs'[r].kind = "upload"
            /\ Ends(r)
            /\ reqs'[r].docId \in DOMAIN documents )
          => /\ reqs'[r].status # 200
             /\ Stringify(documents', heap')[reqs'[r].docId] = Memory[reqs'[r].docId]
      ]_vars

\* a question that is a string and not blank after trimming
Proper(question) ==
    /\ question.type = "string"
    /\ \E i \in 1..Len(question.chars) : question.chars[i] # " "

\* a question that is absent, empty or only whitespace
Blank(question) ==
    \/ question.type = "undefined"
    \/ question.type = "string" /\ \A i \in 1..Len(question.chars) : question.chars[i] = " "

\* C6: An ask (with a proper question; C7 has the blank ones) whose document
\* id is missing or is the id of no stored document answers 400 "Invalid or
\* missing docId" at once and calls neither embedContent nor generateContent.
C6_NotFound ==
    \A r \in 1..MaxReqs :
        ( /\ reqs[r].kind = "ask"
          /\ Proper(reqs[r].question)
          /\ reqs[r].docId \notin DOMAIN documents )
        => /\ reqs[r].pc = "done"
           /\ reqs[r].status = 400
           /\ reqs[r].error = "Invalid or missing docId"
           /\ reqs[r].embedCalls = 0
           /\ reqs[r].genCalls = 0

\* C7: An ask whose question is absent, empty or only whitespace answers 400
\* "No question provided" on arrival, whatever its document id: it calls
\* neither embedContent nor generateContent and leaves documents, the
\* document objects and storage.json as they were.
C7_EmptyQuestion ==
    [][ \A r \in 1..MaxReqs :
          (AskArrived(r) /\ Blank(reqs'[r].question))
          => /\ reqs'[r].pc = "done"
             /\ reqs'[r].status = 400
             /\ reqs'[r].error = "No question provided"
             /\ reqs'[r].embedCalls = 0
             /\ reqs'[r].genCalls = 0
             /\ UNCHANGED <<documents, heap, file>>
      ]_vars

\* C7 witness: a whitespace-only question for a stored document was refused
C7_Witness ==
    \E r \in 1..MaxReqs :
        /\ reqs[r].kind = "ask"
        /\ reqs[r].pc = "done"
        /\ reqs[r].question = [type |-> "string", chars |-> <<" ">>]
        /\ reqs[r].docId \in DOMAIN documents
        /\ reqs[r].status = 400

\* the history section the prompt is to hold for a history of n entries: the
\* entries n-k+1 .. n for k the smaller of n and 6, "None" for n = 0
ExpectedRecent(history) ==
    LET n == Len(history)
        k == IF n < 6 THEN n ELSE 6
    IN  [none |-> n = 0,
         pairs |-> [i \in 1..k |-> [q |-> history[n - k + i].q, a |-> history[n - k + i].a]]]

\* C8: When an ask builds its prompt for a document of n history entries, the
\* history section holds exactly the last min(n, 6) entries, oldest first,
\* and the text "None" when n = 0.
C8_RecentHistory ==
    [][ \A r \in 1..MaxReqs :
          (reqs[r].kind = "ask" /\ reqs[r].pc = "embed" /\ reqs'[r].pc = "generate")
          => reqs'[r].prompt.history = ExpectedRecent(heap[reqs[r].doc].history)
      ]_vars

\* C8 witness: after 8 question/answer pairs the 9th prompt holds the
\* entries 3 .. 8
C8_Witness ==
    \E r \in 1..MaxReqs :
        /\ reqs[r].pc = "generate"
        /\ Len(heap[reqs[r].doc].history) = 8
        /\ reqs[r].prompt.history.pairs =
              [i \in 1..6 |-> [q |-> InitEntry(i + 2).q, a |-> InitEntry(i + 2).a]]

\* C9: An ask answered with success has appended exactly one entry, with its
\* question and the answer it returns, at the end of the history of the
\* document stored under its id; an ask that fails in embedText or in
\* generateContent leaves documents, the document objects and storage.json
\* as they were.
C9_AppendsOne ==
    [][ \A r \in 1..MaxReqs :
          (reqs[r].kind = "ask" /\ Ends(r))
          => /\ reqs'[r].status = 200
                  => /\ reqs'[r].docId \in DOMAIN documents'
                     /\ Stringify(documents', heap')[reqs'[r].docId].history =
                           Append(Memory[reqs'[r].docId].history,
                                  [q |-> reqs'[r].question.chars, a |-> reqs'[r].answer,
                                   createdAt |-> clock])
             /\ reqs'[r].failedAt \in {"embed", "generate"}
                  => UNCHANGED <<documents, heap, file>>
      ]_vars

Chronological(history) ==
    \A i \in 1..(Len(history) - 1) : history[i].createdAt <= history[i + 1].createdAt

\* C10: Over uploads and asks the history of every document id only grows at
\* its end, and createdAt does not decrease along it.
C10_AppendOnly ==
    [][ boots' = boots
          => \A id \in DOMAIN documents :
                /\ id \in DOMAIN documents'
                /\ IsPrefix(Memory[id].history, Stringify(documents', heap')[id].history)
                /\ Chronological(Stringify(documents', heap')[id].history)
      ]_vars

\* the error texts of the failure responses of the two handlers
FailureTexts == { "No file uploaded", "Unsupported file type", "Upload failed",
                  "No question provided", "Invalid or missing docId", "Q&A failed" }

\* request r is suspended at an await
Suspended(r) == reqs[r].pc \in {"extract", "embed", "generate"}

\* C11: Every upload and every ask gets exactly one response once the calls
\* it awaits resolve or fail.  A request is answered on arrival or suspended
\* at an await; a suspended request is eventually answered; a response is a
\* success, or a failure of status 400 or 500 with one of the handlers' error
\* texts; a request that was answered is never answered again.
C11_AlwaysAnswered ==
    /\ [][ \A r \in 1..MaxReqs :
              /\ (reqs[r].kind = "none" /\ reqs'[r].kind # "none")
                    => (reqs'[r].pc = "done" \/ Suspended(r)')
              /\ Ends(r)
                    => \/ reqs'[r].status = 200 /\ reqs'[r].error = ""
                       \/ reqs'[r].status \in {400, 500} /\ reqs'[r].error \in FailureTexts
              /\ (Suspended(r) /\ reqs'[r].pc # "done") => Suspended(r)'
              /\ reqs[r].pc = "done" => reqs'[r].kind = "none"
              /\ (r <= nreq /\ reqs[r].kind = "none") => reqs'[r].kind = "none"
        ]_vars
    /\ \A r \in 1..MaxReqs : Suspended(r) ~> (reqs[r].pc = "done")

\* C11 witness: an ask whose generateContent call rejected was answered 500
C11_Witness ==
    \E r \in 1..MaxReqs :
        /\ reqs[r].kind = "ask"
        /\ reqs[r].pc = "done"
        /\ reqs[r].failedAt = "generate"
        /\ reqs[r].status = 500
        /\ reqs[r].error = "Q&A failed"

\* ceil(a / b) for a >= 0, b >= 1
CeilDiv(a, b) == (a + b - 1) \div b

\* chunkText has returned from a call with 0 <= overlap < size
ChunkReturned ==
    /\ calc.op = "chunkText"
    /\ calc.pc = "returned"
    /\ calc.overlap < calc.chunkSize

\* C12, as the code has it: for 0 <= overlap < size chunkText returns
\* ceil(len(T) / (size - overlap)) chunks, one window for every start offset
\* 0, size-overlap, 2*(size-overlap), ... below len(T).
C12_ChunkCount ==
    ChunkReturned
    => Len(calc.chunks) = CeilDiv(TextLen(calc.text), calc.chunkSize - calc.overlap)

\* C12 as stated: the number of chunks is
\* ceil(max(len(T) - overlap, 0) / (size - overlap)), or 1 for a non-empty T
\* shorter than size.
C12_ChunkCount_Stated ==
    ChunkReturned
    => \/ Len(calc.chunks) = CeilDiv(Max(TextLen(calc.text) - calc.overlap, 0),
                                     calc.chunkSize - calc.overlap)
       \/ /\ 0 < TextLen(calc.text)
          /\ TextLen(calc.text) < calc.chunkSize
          /\ Len(calc.chunks) = 1

\* C12 witness: a text of 3 characters chunked with size 3 and overlap 1 gave
\* the windows at 0 and at 2
C12_Witness ==
    /\ ChunkReturned
    /\ TextLen(calc.text) = 3
    /\ calc.chunkSize = 3
    /\ calc.overlap = 1
    /\ Len(calc.chunks) = 2

\* the windows of a returned call: window k starts at (k-1)*(size-overlap)
\* and ends size characters on, or at the end of the text if that is closer;
\* there is one for every start offset below len(T), none is empty, and
\* together they cover the text
WindowsOf(text, chunkSize, overlap, chunks) ==
    LET len == TextLen(text)
        step == chunkSize - overlap
    IN  /\ \A k \in 1..Len(chunks) :
              /\ (k - 1) * step < len
              /\ chunks[k] = [from |-> (k - 1) * step,
                              to |-> Min((k - 1) * step + chunkSize, len)]
              /\ TextLen(chunks[k]) >= 1
        /\ ~(Len(chunks) * step < len)
        /\ \A pos \in 0..(len - 1) :
              \E k \in 1..Len(chunks) : chunks[k].from <= pos /\ pos < chunks[k].to
        /\ len = 0 => chunks = <<>>
        /\ chunks = chunkText(text, chunkSize, overlap)

\* C13, as the code has it: for 0 <= overlap < size chunkText returns, in
\* order, the windows T[k*(size-overlap), k*(size-overlap)+size) for
\* k = 0, 1, 2, ... while the start offset is below len(T), cut at the end of
\* T; no chunk is empty, the windows cover T, an empty T yields zero chunks,
\* and the windows shorter than size are those that start after
\* len(T) - size: the last one or the last several.
C13_Windows ==
    ChunkReturned
    => /\ WindowsOf(calc.text, calc.chunkSize, calc.overlap, calc.chunks)
       /\ \A k \in 1..Len(calc.chunks) :
             TextLen(calc.chunks[k]) < calc.chunkSize
             <=> calc.chunks[k].from > TextLen(calc.text) - calc.chunkSize

\* C13 as stated: the same windows, and only the last window may be shorter
\* than size.
C13_Windows_Stated ==
    ChunkReturned
    => /\ WindowsOf(calc.text, calc.chunkSize, calc.overlap, calc.chunks)
       /\ \A k \in 1..(Len(calc.chunks) - 1) :
             TextLen(calc.chunks[k]) = calc.chunkSize

\* C13 witness: a text of 3 characters chunked with size 3 and overlap 2 gave
\* three windows, the last two shorter than 3
C13_Witness ==
    /\ ChunkReturned
    /\ TextLen(calc.text) = 3
    /\ calc.chunkSize = 3
    /\ calc.overlap = 2
    /\ Len(calc.chunks) = 3
    /\ TextLen(calc.chunks[2]) = 2

ScoreEq(s, t) == ~ScoreLess(s, t) /\ ~ScoreLess(t, s)

\* the place of chunk i of the document in the ranking
RankOf(i) == CHOOSE j \in 1..Len(calc.scored) : calc.scored[j].text = calc.chunks[i].text

\* C15: For a document of n chunks the excerpts of the prompt are the texts
\* of min(4, n) chunks in non-increasing order of score; no chunk left out
\* scores higher than a chunk included; chunks of equal score keep the order
\* they have in the document.
C15_TopK ==
    (calc.op = "rank" /\ calc.pc = "returned")
    => LET n == Len(calc.chunks)
           k == IF n < 4 THEN n ELSE 4
           score(i) == cosineSimilarity(calc.qVec, calc.chunks[i].embedding)
       IN  /\ Len(calc.scored) = n
           /\ \A i \in 1..n :
                 /\ \E j \in 1..n : calc.scored[j].text = calc.chunks[i].text
                 /\ calc.scored[RankOf(i)].score = score(i)
           /\ \A i, j \in 1..n :
                 /\ ScoreLess(score(i), score(j)) => RankOf(j) < RankOf(i)
                 /\ (ScoreEq(score(i), score(j)) /\ i < j) => RankOf(i) < RankOf(j)
           /\ Len(calc.excerpts) = k
           /\ \A j \in 1..k : calc.excerpts[j] = calc.scored[j].text
           /\ \A j \in 1..(k - 1) : ~ScoreLess(calc.scored[j].score, calc.scored[j + 1].score)
           /\ \A i \in 1..n :
                 RankOf(i) > k
                 => \A j \in 1..k : ~ScoreLess(calc.scored[j].score, score(i))

\* C15 witness: of five chunks the last is the closest to the question and
\* comes first, the first two score the same and follow in their order, and
\* the chunk of the lowest score is left out
C15_Witness ==
    /\ calc.op = "rank"
    /\ calc.pc = "returned"
    /\ Len(calc.chunks) = 5
    /\ calc.qVec = <<1, 0>>
    /\ [i \in 1..5 |-> calc.chunks[i].embedding]
         = << <<0, 1>>, <<0, 0>>, <<-1, 0>>, <<1, 1>>, <<1, 0>> >>
    /\ calc.excerpts = << calc.chunks[5].text, calc.chunks[4].text,
                          calc.chunks[1].text, calc.chunks[2].text >>

\* C16: At startup the store is what storage.json holds when it parses and
\* the empty store otherwise, and uploads are served afterwards: an upload
\* fails only when its extraction, an embedding or the write fails, and the
\* document of an upload answered with success is in storage.json.
C16_ServedAfterStart ==
    /\ nreq = 0 => Memory = LoadStore(file)
    /\ \A r \in 1..MaxReqs :
          (reqs[r].kind = "upload" /\ reqs[r].pc = "done")
          => /\ reqs[r].status = 500 => reqs[r].failedAt \in {"extract", "embed", "save"}
             /\ reqs[r].status = 200 => reqs[r].docId \in DOMAIN Durable

\* C17: Within one upload the embedding calls go out one at a time, in chunk
\* order.  While the upload is suspended in its loop, it has issued one call
\* more than have resolved, and that call is for the next chunk; the step in
\* which a call resolves appends the pair of that chunk's text and the
\* returned vector behind the pairs already made and, if a chunk is left,
\* issues the next call; the document stored at the end holds the pairs in
\* the chunker's order.
C17_OneAtATime ==
    [][ \A r \in 1..MaxReqs :
          /\ (reqs'[r].kind = "upload" /\ reqs'[r].pc = "embed")
                => /\ reqs'[r].embedCalls = Len(reqs'[r].embedded) + 1
                   /\ reqs'[r].embedCalls <= Len(reqs'[r].rawChunks)
          /\ (reqs[r].kind = "upload" /\ reqs[r].pc = "embed" /\ reqs'[r].pc = "embed")
                => /\ reqs'[r].rawChunks = reqs[r].rawChunks
                   /\ \/ reqs'[r].embedded = reqs[r].embedded
                      \/ \E vec \in EmbedVecs :
                            reqs'[r].embedded =
                               Append(reqs[r].embedded,
                                      [text |-> reqs[r].rawChunks[reqs[r].embedCalls],
                                       embedding |-> vec])
          /\ (reqs[r].kind = "upload" /\ reqs[r].pc = "embed" /\ Ends(r)
                 /\ reqs'[r].status = 200)
                => /\ reqs[r].embedCalls = Len(reqs[r].rawChunks)
                   /\ \E vec \in EmbedVecs :
                         heap'[documents'[reqs'[r].docId]].chunks =
                            Append(reqs[r].embedded,
                                   [text |-> reqs[r].rawChunks[reqs[r].embedCalls],
                                    embedding |-> vec])
                   /\ \A i \in 1..Len(reqs[r].rawChunks) :
                         heap'[documents'[reqs'[r].docId]].chunks[i].text = reqs[r].rawChunks[i]
      ]_vars

\* C17 witness: an upload of two chunks was stored after two calls that
\* returned different vectors
C17_Witness ==
    \E r \in 1..MaxReqs :
        /\ reqs[r].kind = "upload"
        /\ reqs[r].pc = "done"
        /\ reqs[r].status = 200
        /\ reqs[r].embedCalls = 2
        /\ Len(reqs[r].embedded) = 2
        /\ reqs[r].embedded[1].embedding # reqs[r].embedded[2].embedding
        /\ heap[documents[reqs[r].docId]].chunks = reqs[r].embedded

\* the document objects but for their histories
Ingested(hp) == [x \in DOMAIN hp |-> [filename |-> hp[x].filename, chunks |-> hp[x].chunks,
                                      createdAt |-> hp[x].createdAt]]

\* ask r runs in this step: it arrives, or one of its awaits is resumed
AskRuns(r) ==
    \/ AskArrived(r)
    \/ reqs[r].kind = "ask" /\ reqs[r].pc \in {"embed", "generate"} /\ reqs'[r] # reqs[r]

\* C18: A step of an ask, whether the ask succeeds or fails, leaves the set
\* of document ids, the object every id is bound to, and the filename, chunks
\* and createdAt of every document object as they were, and changes the
\* history of no document but the one it looked up.
C18_AskFrame ==
    [][ \A r \in 1..MaxReqs :
          (AskRuns(r) /\ boots' = boots)
          => /\ documents' = documents
             /\ Ingested(heap') = Ingested(heap)
             /\ \A x \in DOMAIN heap : x # reqs[r].doc => heap'[x].history = heap[x].history
             /\ \A id \in DOMAIN documents :
                   id # reqs'[r].docId => Memory[id] = Stringify(documents', heap')[id]
      ]_vars

\* C18 witness: an ask was answered with success while the store held two
\* documents, and the other document has no history
C18_Witness ==
    \E r \in 1..MaxReqs :
        /\ reqs[r].kind = "ask"
        /\ reqs[r].pc = "done"
        /\ reqs[r].status = 200
        /\ reqs[r].docId \in DOMAIN documents
        /\ Memory[reqs[r].docId].history # <<>>
        /\ \E id \in DOMAIN documents :
              /\ id # reqs[r].docId
              /\ Memory[id].history = <<>>
              /\ Memory[id].chunks # <<>>

\* C19: Whatever generateContent resolves with, the ask does not fail for
\* it: unless the call rejected or the write of storage.json failed, the ask
\* is answered with success, its answer is a string, and the entry with that
\* answer is the last of the history of the document it looked up.
C19_AlwaysText ==
    [][ \A r \in 1..MaxReqs :
          (reqs[r].kind = "ask" /\ reqs[r].pc = "generate" /\ Ends(r)
             /\ reqs'[r].failedAt \notin {"generate", "save"})
          => /\ reqs'[r].status = 200
             /\ IsString(reqs'[r].answer)
             /\ heap'[reqs[r].doc].history =
                   Append(heap[reqs[r].doc].history,
                          [q |-> reqs[r].question.chars, a |-> reqs'[r].answer,
                           createdAt |-> clock])
      ]_vars

\* every entry of v is 0: v has zero magnitude
ZeroVec(v) == \A i \in 1..Len(v) : v[i] = 0

\* C20: cosineSimilarity(a, b) is exactly 0 whenever a or b has zero
\* magnitude, and cosineSimilarity(a, b) = cosineSimilarity(b, a), for all
\* vectors a and b of one length.
C20_ZeroAndSymmetric ==
    (calc.op = "cosineSimilarity" /\ calc.pc = "returned")
    => /\ (ZeroVec(calc.a) \/ ZeroVec(calc.b)) => calc.result = [num |-> 0, den2 |-> 1]
       /\ calc.result = cosineSimilarity(calc.b, calc.a)
       /\ calc.result.den2 >= 1

\* C20 witness: the similarity of a vector of three entries and the zero
\* vector was computed, and is 0
C20_Witness ==
    /\ calc.op = "cosineSimilarity"
    /\ calc.pc = "returned"
    /\ calc.a = <<1, -1, 1>>
    /\ calc.b = <<0, 0, 0>>
    /\ calc.result.num = 0

====
